---- MODULE Spec2Model ----
(***************************************************************************)
(* Voice-Analysis-App (src/app.py): the rule tables and index arithmetic   *)
(* of the Streamlit script, one action per button handler / script block.  *)
(*                                                                         *)
(* Floating-point metrics are fixed-point integers:                        *)
(*   rms_mean            thousandths          (0.01  -> 10)                *)
(*   pitch_mean          Hz                                                *)
(*   clarity_mean        hundredths           (0.2   -> 20)                *)
(*   speech rate         hundredths words/s   (2.5   -> 250)               *)
(*   f0_std, pause_ratio tenths               (15    -> 150)               *)
(*   f1, f2, centroid, bandwidth  tenths Hz   (800   -> 8000)              *)
(*   slope               hundredths dB        (-10   -> -1000)             *)
(*   flatness_mean       ten-thousandths      (0.85  -> 8500)              *)
(*   segment times       milliseconds                                      *)
(* Phrases are named in English; the script emits the Japanese sentences   *)
(* quoted in the comments of src/app.py.                                   *)
(***************************************************************************)
EXTENDS Integers, Sequences, FiniteSets, TLC

VARIABLES op, arg, res, pc, segments, seg_data

vars == <<op, arg, res, pc, segments, seg_data>>

----------------------------------------------------------------------------
(* Bounds of the model *)

\* largest value of a metric of the clips A and B that are compared
MaxMetric == 2

\* most segments in a transcript
MaxSegs == 2

\* length of the recording that is transcribed, in seconds
RecSeconds == 3

\* most tenths of a second a recording exceeds the analysis window by
MaxExtraTenths == 2

\* most roots the LPC polynomial is given in the upper half plane
MaxRoots == 2

----------------------------------------------------------------------------
(* Thresholds of the script *)

RmsQuiet == 10
RmsLoud == 30
PitchLow == 110
PitchHigh == 250
ClarityClear == 20
ClarityMuffled == 40

\* audio_recorder(sample_rate=16000); librosa.load(sr=None) keeps it
SampleRate == 16000

\* segment evaluation
SlowRate == 250
FastRate == 500
MonotoneStd == 150
ExpressiveStd == 300
PauseHeavy == 300
SilenceRms == 10

\* range analysis
WindowSec == 15

\* generate_natural_feedback
F1High == 8000
F2Low == 10000
CentroidLow == 12000
CentroidHigh == 25000
BandwidthLow == 3000
SlopeSteep == -1000
FlatnessNoisy == 8500

----------------------------------------------------------------------------
(* Helpers *)

Abs(x) == IF x < 0 THEN -x ELSE x

Min(a, b) == IF a < b THEN a ELSE b

Max(a, b) == IF a > b THEN a ELSE b

Around(t) == {t - 1, t, t + 1}

\* sep.join(parts): the parts with sep between neighbours
RECURSIVE Join(_, _)
Join(parts, sep) ==
    IF Len(parts) = 0 THEN <<>>
    ELSE IF Len(parts) = 1 THEN <<parts[1]>>
    ELSE <<parts[1], sep>> \o Join(Tail(parts), sep)

\* the phrases of a joined message, separators dropped
Phrases(msg) == SelectSeq(msg, LAMBDA x : x # " ")

\* n / d rounded to the nearest integer, ties to even (d > 0)
RoundHalfEven(n, d) ==
    LET q == n \div d
        r == n - q * d
    IN  IF 2 * r < d THEN q
        ELSE IF 2 * r > d THEN q + 1
        ELSE IF q % 2 = 0 THEN q ELSE q + 1

\* int(num / den): truncation toward zero (den > 0)
PyInt(num, den) == IF num >= 0 THEN num \div den ELSE -((-num) \div den)

\* y[s:e] on a buffer of n samples, as the half-open range of 0-based
\* indices it holds: a negative bound counts from the end of the buffer,
\* then both are clamped to [0, n]
PySlice(n, s, e) ==
    LET lo == IF s < 0 THEN Max(s + n, 0) ELSE Min(s, n)
        hi == IF e < 0 THEN Max(e + n, 0) ELSE Min(e, n)
    IN  [lo |-> lo, hi |-> hi]

\* len() of a slice
SliceLen(sl) == Max(sl.hi - sl.lo, 0)

\* two slices hold the same samples of the same buffer
SameSamples(a, b) ==
    \/ SliceLen(a) = 0 /\ SliceLen(b) = 0
    \/ SliceLen(a) > 0 /\ a.lo = b.lo /\ a.hi = b.hi

----------------------------------------------------------------------------
(* generate_feedback *)

FeatureSets ==
    [rms_mean     : Around(RmsQuiet) \cup Around(RmsLoud),
     pitch_mean   : Around(PitchLow) \cup Around(PitchHigh),
     clarity_mean : Around(ClarityClear) \cup Around(ClarityMuffled)]

generate_feedback_loose(feat) ==
    LET volume == IF feat.rms_mean <= RmsQuiet THEN <<"quiet">>
                  ELSE IF feat.rms_mean > RmsLoud THEN <<"loud">>
                  ELSE <<"moderate">>
        pitch == IF feat.pitch_mean < PitchLow THEN <<"low">>
                 ELSE IF feat.pitch_mean > PitchHigh THEN <<"high">>
                 ELSE <<"stable_pitch">>
        clarity == IF feat.clarity_mean < ClarityClear THEN <<"clear">>
                   ELSE IF feat.clarity_mean >= ClarityMuffled THEN <<"muffled">>
                   ELSE <<>>
    IN  Join(volume \o pitch \o clarity, " ")

generate_feedback(feat) ==
    LET volume == IF feat.rms_mean < RmsQuiet THEN <<"quiet">>
                  ELSE IF feat.rms_mean > RmsLoud THEN <<"loud">>
                  ELSE <<"moderate">>
        pitch == IF feat.pitch_mean < PitchLow THEN <<"low">>
                 ELSE IF feat.pitch_mean > PitchHigh THEN <<"high">>
                 ELSE <<"stable_pitch">>
        clarity == IF feat.clarity_mean < ClarityClear THEN <<"clear">>
                   ELSE IF feat.clarity_mean > ClarityMuffled THEN <<"muffled">>
                   ELSE <<>>
    IN  Join(volume \o pitch \o clarity, " ")

----------------------------------------------------------------------------
(* compare_features / compare_feedback *)

Metrics == {"rms_mean", "pitch_mean", "pitch_std", "clarity_mean"}

ClipFeatures == [Metrics -> 0 .. MaxMetric]

\* true division: Python raises ZeroDivisionError on a zero divisor
TrueDivRound(n, d) ==
    IF d = 0 THEN [kind |-> "ZeroDivisionError", tenths |-> 0]
    ELSE IF d > 0 THEN [kind |-> "pct", tenths |-> RoundHalfEven(n, d)]
    ELSE [kind |-> "pct", tenths |-> RoundHalfEven(-n, -d)]

pct_guard_b(a, b) ==
    IF b # 0 THEN TrueDivRound((b - a) * 1000, a)
    ELSE [kind |-> "N/A", tenths |-> 0]

\* f"{(b - a) / a * 100:+.1f}%" if a != 0 else "N/A"; tenths of a percent
pct(a, b) ==
    IF a # 0 THEN TrueDivRound((b - a) * 1000, a)
    ELSE [kind |-> "N/A", tenths |-> 0]

compare_features(fa, fb) == [m \in Metrics |-> pct(fa[m], fb[m])]

compare_feedback_ge(fa, fb) ==
    LET loud == IF fb["rms_mean"] >= fa["rms_mean"]
                THEN "B_louder" ELSE "A_louder"
        stable == IF fb["pitch_std"] < fa["pitch_std"]
                  THEN "B_stable_pitch" ELSE "A_more_intonation"
        clear == IF fb["clarity_mean"] < fa["clarity_mean"]
                 THEN "B_clearer" ELSE "A_clearer"
    IN  Join(<<loud, stable, clear>>, " ")

compare_feedback(fa, fb) ==
    LET loud == IF fb["rms_mean"] > fa["rms_mean"]
                THEN "B_louder" ELSE "A_louder"
        stable == IF fb["pitch_std"] < fa["pitch_std"]
                  THEN "B_stable_pitch" ELSE "A_more_intonation"
        clear == IF fb["clarity_mean"] < fa["clarity_mean"]
                 THEN "B_clearer" ELSE "A_clearer"
    IN  Join(<<loud, stable, clear>>, " ")

----------------------------------------------------------------------------
(* Segment evaluation of the transcription handler *)

FWSP == "fwsp"

\* text.replace(full-width space, " ")
ReplaceFwsp(text) == [i \in 1 .. Len(text) |-> IF text[i] = FWSP THEN " " ELSE text[i]]

\* len(text.split()): the maximal runs of characters that are not whitespace
SplitCount(text) ==
    Cardinality({i \in 1 .. Len(text) :
                    /\ text[i] # " "
                    /\ (i = 1 \/ text[i - 1] = " ")})

\* a text of n one-letter words, half- and full-width spaces in turn
MkText(n) ==
    [i \in 1 .. (2 * n - 1) |->
        IF i % 2 = 1 THEN "w" ELSE IF i % 4 = 2 THEN " " ELSE FWSP]

Starts == {-1000, 0, 2000}
Ends == {0, 2003, 5000}
Texts == {MkText(5), MkText(11)}

Segments == [start : Starts, end : Ends, text : Texts]

Transcripts == UNION {[1 .. k -> Segments] : k \in 0 .. MaxSegs}

\* what librosa.yin and librosa.feature.rms measure on a slice: the rounded
\* standard deviation of f0 and the RMS of the frames
AcousticCases ==
    {[f0_std |-> MonotoneStd - 1, rms |-> <<10, 10, 10>>],
     [f0_std |-> MonotoneStd, rms |-> <<9, 10, 10>>],
     [f0_std |-> ExpressiveStd, rms |-> <<9, 9, 9, 10, 10, 10, 10, 10, 10, 10>>],
     [f0_std |-> ExpressiveStd + 1, rms |-> <<9, 9>>]}

\* the recorded buffer y holds this many samples
NumSamples == RecSeconds * SampleRate

\* round(words / dur, 2) if dur > 0 else 0
SpeechRate(words, dur) ==
    IF dur > 0 THEN RoundHalfEven(words * 100 * 1000, dur) ELSE 0

\* round(np.sum(rms < 0.01) / len(rms) * 100, 1)
PauseRatio(rms) ==
    RoundHalfEven(Cardinality({i \in 1 .. Len(rms) : rms[i] < SilenceRms}) * 1000,
                  Len(rms))

Comments_always_stable(rate, f0_std, pause_ratio) ==
    LET speed == IF rate < SlowRate THEN <<"slow">>
                 ELSE IF rate > FastRate THEN <<"fast">>
                 ELSE <<>>
        tone == IF f0_std < MonotoneStd THEN <<"monotone">>
                ELSE IF f0_std > ExpressiveStd THEN <<"expressive">>
                ELSE <<>>
        pause == IF pause_ratio > PauseHeavy THEN <<"pause-heavy">> ELSE <<>>
    IN  speed \o tone \o pause \o <<"stable">>

Comments_slow_at_threshold(rate, f0_std, pause_ratio) ==
    LET speed == IF rate <= SlowRate THEN <<"slow">>
                 ELSE IF rate > FastRate THEN <<"fast">>
                 ELSE <<>>
        tone == IF f0_std < MonotoneStd THEN <<"monotone">>
                ELSE IF f0_std > ExpressiveStd THEN <<"expressive">>
                ELSE <<>>
        pause == IF pause_ratio > PauseHeavy THEN <<"pause-heavy">> ELSE <<>>
        comments == speed \o tone \o pause
    IN  IF comments = <<>> THEN <<"stable">> ELSE comments

\* the comments list of one segment
Comments(rate, f0_std, pause_ratio) ==
    LET speed == IF rate < SlowRate THEN <<"slow">>
                 ELSE IF rate > FastRate THEN <<"fast">>
                 ELSE <<>>
        tone == IF f0_std < MonotoneStd THEN <<"monotone">>
                ELSE IF f0_std > ExpressiveStd THEN <<"expressive">>
                ELSE <<>>
        pause == IF pause_ratio > PauseHeavy THEN <<"pause-heavy">> ELSE <<>>
        comments == speed \o tone \o pause
    IN  IF comments = <<>> THEN <<"stable">> ELSE comments

\* y[int(s_start * sr):int(s_end * sr)]
SegmentSlice(seg) ==
    PySlice(NumSamples, PyInt(seg.start * SampleRate, 1000),
                        PyInt(seg.end * SampleRate, 1000))

\* the row appended to seg_data for seg, given what was measured on its slice
SegmentMetric(seg, ac) ==
    LET dur == seg.end - seg.start
        words == SplitCount(ReplaceFwsp(seg.text))
        rate == SpeechRate(words, dur)
        pause_ratio == PauseRatio(ac.rms)
    IN  [start |-> seg.start, end |-> seg.end, text |-> seg.text,
         words |-> words, rate |-> rate,
         f0_std |-> ac.f0_std, pause_ratio |-> pause_ratio,
         y_part |-> SegmentSlice(seg),
         comments |-> Join(Comments(rate, ac.f0_std, pause_ratio), ",")]

\* the tags of a row
Tags(m) == {m.comments[i] : i \in 1 .. Len(m.comments)} \ {","}

----------------------------------------------------------------------------
(* Range analysis: the 15 second window and its extended features *)

\* an absent value (None) and a present one
None == <<>>
Some(v) == <<v>>

\* truth value of an optional number in "if f1 and f2": None and 0.0 are false
Truthy(x) == x # None /\ x[1] # 0

WindowSamples == WindowSec * SampleRate

\* lengths of the recording y_full, in samples
Recordings ==
    {0, WindowSamples - 1} \cup
    {WindowSamples + t * (SampleRate \div 10) + e :
        t \in 0 .. MaxExtraTenths, e \in {0, 1}}

\* dur_full < 15.0, with dur_full = n / sr_full
TooShort(n) == n < WindowSamples

SliderMax_whole_recording(n) == n

\* (dur_full - 15.0) * sr_full: the slider's upper end, in samples
SliderMax(n) == n - WindowSamples

\* start_sec * sr_full for the values of st.slider(0.0, dur_full - 15.0,
\* step=0.1): the multiples of 0.1 s up to the upper end, and the upper end
SliderPositions(n) ==
    {x \in 0 .. SliderMax(n) : x % (SampleRate \div 10) = 0 \/ x = SliderMax(n)}

\* int(start_sec * sr_full): the product is a float, which may lie just
\* below the exact value x
StartSamples(x) == {x} \cup (IF x >= 1 THEN {x - 1} ELSE {})

\* frequencies of the LPC roots with imag >= 0, in hundredths of a Hz
RootFreqs == {0, 50000, 90000, (SampleRate \div 2) * 100}

\* librosa.lpc / np.roots either raise or give the root frequencies
LpcOutcomes ==
    {[raised |-> TRUE, freqs |-> <<>>]} \cup
    {[raised |-> FALSE, freqs |-> fs] :
        fs \in UNION {[1 .. k -> RootFreqs] : k \in 0 .. MaxRoots}}

\* centroid_mean, bandwidth_mean, slope and flatness_mean of the window
SpectralCases ==
    [centroid_mean  : {CentroidLow - 1, CentroidLow, CentroidHigh + 1},
     bandwidth_mean : {BandwidthLow - 1, BandwidthLow},
     slope          : {SlopeSteep - 1, SlopeSteep},
     flatness_mean  : {FlatnessNoisy, FlatnessNoisy + 1}]

\* np.sort(freqs[freqs < sr_full / 2])
Formants(freqs) ==
    SortSeq(SelectSeq(freqs, LAMBDA f : 2 * f < SampleRate * 100),
            LAMBDA a, b : a < b)

\* round(formants[k - 1], 1) if len(formants) > k - 1 else None
Formant(formants, k) ==
    IF Len(formants) > k - 1 THEN Some(RoundHalfEven(formants[k], 10)) ELSE None

generate_natural_feedback(f1, f2, centroid_mean, bandwidth_mean, slope, flatness_mean) ==
    LET vowel == IF Truthy(f1) /\ Truthy(f2) /\ (f1[1] > F1High \/ f2[1] < F2Low)
                 THEN <<"muffled_vowels">> ELSE <<>>
        centroid == IF centroid_mean < CentroidLow THEN <<"muffled_spectrum">>
                    ELSE IF centroid_mean > CentroidHigh THEN <<"sharp_spectrum">>
                    ELSE <<>>
        bandwidth == IF bandwidth_mean < BandwidthLow THEN <<"narrow_band">> ELSE <<>>
        tilt == IF slope < SlopeSteep THEN <<"steep_slope">> ELSE <<>>
        flat == IF flatness_mean > FlatnessNoisy THEN <<"noisy">> ELSE <<>>
        feedback == vowel \o centroid \o bandwidth \o tilt \o flat
    IN  IF feedback # <<>> THEN <<"header">> \o feedback ELSE <<"no_anomalies">>

\* the extended features shown for the window, and their feedback
ExtendedFeatures(lpc, sp) ==
    LET formants == Formants(lpc.freqs)
        f1 == Formant(formants, 1)
        f2 == Formant(formants, 2)
    IN  IF lpc.raised
        THEN [error |-> TRUE, reported |-> FALSE, f1 |-> None, f2 |-> None,
              feedback |-> <<>>]
        ELSE [error |-> FALSE, reported |-> TRUE, f1 |-> f1, f2 |-> f2,
              feedback |-> generate_natural_feedback(f1, f2, sp.centroid_mean,
                              sp.bandwidth_mean, sp.slope, sp.flatness_mean)]

----------------------------------------------------------------------------
(* The script *)

Init ==
    /\ op = "launch"
    /\ arg = <<>>
    /\ res = <<>>
    /\ pc = "idle"
    /\ segments = <<>>
    /\ seg_data = <<>>

\* the page is reloaded: a fresh session, nothing uploaded or recorded
Reload ==
    /\ op # "launch"
    /\ pc # "scoring"
    /\ op' = "launch"
    /\ arg' = <<>>
    /\ res' = <<>>
    /\ pc' = "idle"
    /\ segments' = <<>>
    /\ seg_data' = <<>>

\* a clip is uploaded: analyze_features, then generate_feedback is shown
AnalyzeClip ==
    /\ op = "launch"
    /\ \E feat \in FeatureSets :
          /\ op' = "generate_feedback"
          /\ arg' = feat
          /\ res' = generate_feedback(feat)
    /\ UNCHANGED <<pc, segments, seg_data>>

\* clips A and B are both uploaded: compare_features and compare_feedback
CompareClips ==
    /\ op = "launch"
    /\ \E fa \in ClipFeatures, fb \in ClipFeatures :
          /\ op' = "compare"
          /\ arg' = [fa |-> fa, fb |-> fb]
          /\ res' = [diffs |-> compare_features(fa, fb),
                     feedback |-> compare_feedback(fa, fb)]
    /\ UNCHANGED <<pc, segments, seg_data>>

\* the transcription button: Whisper returns the segments
Transcribe ==
    /\ op = "launch"
    /\ op' = "transcribe"
    /\ \E segs \in Transcripts : segments' = segs
    /\ seg_data' = <<>>
    /\ pc' = "scoring"
    /\ UNCHANGED <<arg, res>>

\* one iteration of "for seg in result['segments']". librosa.yin on an
\* empty slice either raises (reflect padding of an empty array) or
\* returns (constant padding), depending on the installed release; nothing
\* in the loop catches the exception
ScoreSegment ==
    /\ pc = "scoring"
    /\ Len(seg_data) < Len(segments)
    /\ LET seg == segments[Len(seg_data) + 1]
       IN  \/ /\ SliceLen(SegmentSlice(seg)) = 0
              /\ pc' = "error"
              /\ UNCHANGED seg_data
           \/ /\ \E ac \in AcousticCases :
                    seg_data' = Append(seg_data, SegmentMetric(seg, ac))
              /\ pc' = pc
    /\ UNCHANGED <<op, arg, res, segments>>

\* the loop is over: st.dataframe(seg_data)
ShowSegments ==
    /\ pc = "scoring"
    /\ Len(seg_data) = Len(segments)
    /\ pc' = "done"
    /\ UNCHANGED <<op, arg, res, segments, seg_data>>

\* a recording exists: the range section warns or offers the slider and
\* cuts y_seg = y_full[start_sample:end_sample]
SelectRange ==
    /\ op = "launch"
    /\ op' = "range"
    /\ \E n \in Recordings :
          IF TooShort(n)
          THEN /\ arg' = [n |-> n, start |-> 0]
               /\ res' = [status |-> "warning", start_sample |-> 0,
                          end_sample |-> 0, y_seg |-> PySlice(n, 0, 0)]
          ELSE \E x \in SliderPositions(n) : \E start_sample \in StartSamples(x) :
                  LET end_sample == start_sample + WindowSec * SampleRate
                  IN  /\ arg' = [n |-> n, start |-> x]
                      /\ res' = [status |-> "slider",
                                 start_sample |-> start_sample,
                                 end_sample |-> end_sample,
                                 y_seg |-> PySlice(n, start_sample, end_sample)]
    /\ UNCHANGED <<pc, segments, seg_data>>

\* the button under the slider: the extended features of y_seg. An
\* exception of librosa.lpc or np.roots is caught nowhere and ends the run
AnalyzeRange ==
    /\ op = "range"
    /\ res.status = "slider"
    /\ op' = "extended"
    /\ \E lpc \in LpcOutcomes, sp \in SpectralCases :
          /\ arg' = [n |-> arg.n, y_seg |-> res.y_seg, lpc |-> lpc, spectral |-> sp]
          /\ res' = ExtendedFeatures(lpc, sp)
    /\ UNCHANGED <<pc, segments, seg_data>>

Next ==
    \/ AnalyzeClip
    \/ CompareClips
    \/ SelectRange
    \/ AnalyzeRange
    \/ Transcribe
    \/ ScoreSegment
    \/ ShowSegments
    \/ Reload

Spec == Init /\ [][Next]_vars

----------------------------------------------------------------------------
(* Properties *)

Rows == {seg_data[k] : k \in 1 .. Len(seg_data)}

C2_TagsOnExactRate ==
    \A m \in Rows :
        /\ m.end > m.start =>
              /\ "slow" \in Tags(m) <=> m.words * 1000 * 10 < 25 * (m.end - m.start)
              /\ "fast" \in Tags(m) <=> m.words * 1000 > 5 * (m.end - m.start)
        /\ "monotone" \in Tags(m) <=> m.f0_std < 150
        /\ "expressive" \in Tags(m) <=> m.f0_std > 300
        /\ "pause-heavy" \in Tags(m) <=> m.pause_ratio > 300

\* C2 amended: the thresholds are applied to the stored speech rate, which is
\* word_count / (end - start) rounded to two decimals when end > start and 0
\* otherwise: slow iff that rate < 2.5, fast iff that rate > 5; monotone iff
\* f0_std < 15, expressive iff f0_std > 30, pause-heavy iff pause_ratio > 30.
C2_TagsOnRoundedRate ==
    \A m \in Rows :
        /\ m.end > m.start =>
              2 * Abs(m.rate * (m.end - m.start) - m.words * 100 * 1000)
                  <= m.end - m.start
        /\ m.end <= m.start => m.rate = 0
        /\ "slow" \in Tags(m) <=> m.rate < 250
        /\ "fast" \in Tags(m) <=> m.rate > 500
        /\ "monotone" \in Tags(m) <=> m.f0_std < 150
        /\ "expressive" \in Tags(m) <=> m.f0_std > 300
        /\ "pause-heavy" \in Tags(m) <=> m.pause_ratio > 300

\* C2 witness: 5 words over 2.003 s (2.4963 words/s) are stored as 2.5 and
\* not tagged slow, next to a segment that is tagged slow and pause-heavy.
C2_Witness ==
    /\ pc = "done"
    /\ \E m \in Rows :
          /\ m.words = 5 /\ m.end - m.start = 2003 /\ m.rate = 250
          /\ "slow" \notin Tags(m)
    /\ \E m \in Rows :
          /\ m.end > m.start
          /\ {"slow", "pause-heavy"} \subseteq Tags(m)

\* C3: every scored segment has at least one tag; "stable" is present iff
\* none of slow, fast, monotone, expressive, pause-heavy is; slow and fast
\* never come together, nor do monotone and expressive.
C3_TagSetShape ==
    \A m \in Rows :
        LET rules == {"slow", "fast", "monotone", "expressive", "pause-heavy"}
        IN  /\ Tags(m) # {}
            /\ Tags(m) \subseteq rules \cup {"stable"}
            /\ "stable" \in Tags(m) <=> Tags(m) \cap rules = {}
            /\ ~ {"slow", "fast"} \subseteq Tags(m)
            /\ ~ {"monotone", "expressive"} \subseteq Tags(m)

\* C3 witness: one segment with the fallback tag alone and one with tags of
\* three different rules.
C3_Witness ==
    /\ pc = "done"
    /\ \E m \in Rows : Tags(m) = {"stable"}
    /\ \E m \in Rows : Tags(m) = {"fast", "expressive", "pause-heavy"}

C5_PercentDelta ==
    op = "compare" =>
        \A m \in Metrics :
            LET a == arg.fa[m]
                b == arg.fb[m]
                d == res.diffs[m]
            IN  /\ d.kind # "ZeroDivisionError"
                /\ d.kind = "N/A" <=> a = 0
                /\ a # 0 =>
                      /\ d.kind = "pct"
                      /\ 2 * Abs(d.tenths * a - (b - a) * 1000) <= Abs(a)
                      /\ b = a => d.tenths = 0

\* C5 witness: one metric with a = 0, one with b = a # 0, one that halves.
C5_Witness ==
    /\ op = "compare"
    /\ arg.fa["rms_mean"] = 0 /\ arg.fb["rms_mean"] = 1
    /\ res.diffs["rms_mean"].kind = "N/A"
    /\ arg.fa["pitch_mean"] = 1 /\ arg.fb["pitch_mean"] = 1
    /\ res.diffs["pitch_mean"] = [kind |-> "pct", tenths |-> 0]
    /\ arg.fa["clarity_mean"] = 2 /\ arg.fb["clarity_mean"] = 1
    /\ res.diffs["clarity_mean"] = [kind |-> "pct", tenths |-> -500]

\* C6: when LPC fitting or root-finding fails, no error escapes, f1 and f2
\* are absent, and the other extended features and the extended feedback
\* are still reported.
C6_LpcFailureIsolated ==
    (op = "extended" /\ arg.lpc.raised) =>
        /\ ~ res.error
        /\ res.reported
        /\ res.f1 = None /\ res.f2 = None
        /\ res.feedback # <<>>

\* C7: segment scoring never aborts, and when it is over seg_data holds one
\* row per transcript segment, in transcript order, a segment with
\* end <= start having speech rate 0.
C7_ScoringCompletes ==
    /\ pc # "error"
    /\ pc = "done" =>
          /\ Len(seg_data) = Len(segments)
          /\ \A k \in 1 .. Len(segments) :
                /\ seg_data[k].start = segments[k].start
                /\ seg_data[k].end = segments[k].end
                /\ seg_data[k].text = segments[k].text
                /\ segments[k].end <= segments[k].start => seg_data[k].rate = 0

\* C8: the slice of a segment is samples[max(0, s) .. min(len, e)) for
\* s = int(start * sr) and e = int(end * sr).
C8_SliceClamped ==
    \A m \in Rows :
        LET s == PyInt(m.start * SampleRate, 1000)
            e == PyInt(m.end * SampleRate, 1000)
        IN  SameSamples(m.y_part, [lo |-> Max(0, s), hi |-> Min(NumSamples, e)])

\* C9: generate_natural_feedback returns the "no anomalies" sentinel iff no
\* rule holds, the formant rule being: f1 and f2 both present (any number,
\* 0 Hz included) and (f1 > 800 or f2 < 1000); whenever that rule holds the
\* formant phrase is in the feedback.
C9_NaturalFeedbackRules ==
    (op = "extended" /\ ~ res.error) =>
        LET sp == arg.spectral
            vowel == /\ res.f1 # None /\ res.f2 # None
                     /\ (res.f1[1] > 8000 \/ res.f2[1] < 10000)
            other == \/ sp.centroid_mean < 12000
                     \/ sp.centroid_mean > 25000
                     \/ sp.bandwidth_mean < 3000
                     \/ sp.slope < -1000
                     \/ sp.flatness_mean > 8500
            lines == {res.feedback[i] : i \in 1 .. Len(res.feedback)}
        IN  /\ res.feedback = <<"no_anomalies">> <=> ~ (vowel \/ other)
            /\ vowel <=> "muffled_vowels" \in lines

\* C10: a recording shorter than 15 s gets the warning and no extended
\* analysis; otherwise, for every slider position, y_seg =
\* y_full[start_sample:end_sample] has exactly 15 * sr samples and
\* end_sample is at most the number of samples of the recording.
C10_WindowInsideRecording ==
    /\ op = "range" =>
          /\ res.status = "warning" <=> arg.n < 15 * SampleRate
          /\ res.status = "slider" =>
                /\ 0 <= res.start_sample
                /\ res.end_sample <= arg.n
                /\ res.y_seg = [lo |-> res.start_sample, hi |-> res.end_sample]
                /\ SliceLen(res.y_seg) = 15 * SampleRate
    /\ op = "extended" =>
          /\ arg.n >= 15 * SampleRate
          /\ SliceLen(arg.y_seg) = 15 * SampleRate
          /\ 0 <= arg.y_seg.lo /\ arg.y_seg.hi <= arg.n

\* C10 witness: the last 15 s of a longer recording are analysed.
C10_Witness ==
    /\ op = "extended"
    /\ ~ res.error
    /\ arg.y_seg.lo > 0
    /\ arg.y_seg.hi = arg.n

====
